---- MODULE Spec2Model ----
(***************************************************************************)
(* A model of collect_code.py: the directory walk and file filter of       *)
(* collect_files, and the argument handling, root loop and output write of *)
(* main.                                                                   *)
(*                                                                         *)
(* Text is a sequence of one-character strings, so that suffix, lower,     *)
(* strip and split work on it as the Python operations do.  A fixed        *)
(* literal that no operation looks inside (the error placeholder's frame,  *)
(* an error description) is written as one element.  A path is the         *)
(* sequence of its components below "/".                                   *)
(***************************************************************************)
EXTENDS Naturals, Sequences, FiniteSets, TLC

\* ------------------------------------------------------------------ bounds
\* Depth of the directory tree below the top directory.
MaxDepth == 2
\* Number of positional folder arguments given to main.
MaxRoots == 2
\* Length of the --exclude-langs string in SpecLangs.
MaxLangLen == 4

\* ------------------------------------------------------- program constants
DEFAULT_EXCLUDE_DIRS ==
    { <<".", "i", "d", "e", "a">>,
      <<".", "v", "e", "n", "v">>,
      <<"v", "e", "n", "v">>,
      <<"_", "_", "p", "y", "c", "a", "c", "h", "e", "_", "_">>,
      <<".", "e", "n", "v">> }

DEFAULT_EXTENSIONS ==
    { <<".", "p", "y">>, <<".", "j", "a", "v", "a">>, <<".", "c">>,
      <<".", "c", "p", "p">>, <<".", "c", "c">>, <<".", "c", "x", "x">>,
      <<".", "h">>, <<".", "h", "p", "p">> }

\* ------------------------------------------------- the names of the universe
W    == <<"w">>                  \* the top directory, /w
S    == <<"s">>                  \* an ordinary directory name
VENV == <<"v", "e", "n", "v">>   \* a directory name of DEFAULT_EXCLUDE_DIRS
L    == <<"l">>                  \* a symbolic link to /w
X    == <<"x">>                  \* a name that does not exist under /
OPT  == <<"o", "p", "t">>        \* a directory outside /w

FC   == <<"m", ".", "c">>        \* m.c
FCU  == <<"m", ".", "C">>        \* m.C: m.c with the extension in upper case
FO   == <<"n", ".", "o">>        \* n.o
FK   == <<"k">>                  \* no extension
DOTC == <<".", "c">>             \* a dot file: its suffix is empty
\* collected_code.txt, the name of the output file (line 134)
OUT  == <<"c", "o", "l", "l", "e", "c", "t", "e", "d", "_", "c", "o", "d", "e",
          ".", "t", "x", "t">>

EXT_C  == <<".", "c">>
EXT_CU == <<".", "C">>
EXT_O  == <<".", "o">>

DirLists  == { <<S>>, <<VENV, S>>, <<S, VENV>>, <<L, S>> }
FileLists == { <<FC, FO>>, <<FCU, FC, FK>>, <<FO, FCU>>, <<DOTC, FC>> }
Unreadables == { {}, {FC}, {FO} }

\* ------------------------------------------------------------ text helpers
Range(s) == { s[i] : i \in 1..Len(s) }

Last(s) == s[Len(s)]

Reverse(s) == [ i \in 1..Len(s) |-> s[Len(s) + 1 - i] ]

IsPrefix(p, s) == Len(p) <= Len(s) /\ SubSeq(s, 1, Len(p)) = p

RECURSIVE Join(_)
\* "".join(parts)
Join(parts) == IF parts = <<>> THEN <<>> ELSE Head(parts) \o Join(Tail(parts))

RECURSIVE JoinSlash(_)
\* str(path): the components joined by "/"
JoinSlash(p) ==
    IF p = <<>> THEN <<>>
    ELSE IF Len(p) = 1 THEN p[1]
    ELSE p[1] \o <<"/">> \o JoinSlash(Tail(p))

\* str.lower() on one character
LowerChar(c) ==
    CASE c = "C" -> "c"
      [] c = "O" -> "o"
      [] c = "M" -> "m"
      [] c = "N" -> "n"
      [] c = "K" -> "k"
      [] OTHER  -> c

lower(s) == [ i \in 1..Len(s) |-> LowerChar(s[i]) ]

\* str.rfind("."), 1-based; 0 when there is none
RFindDot(name) ==
    LET at == { i \in 1..Len(name) : name[i] = "." }
    IN  IF at = {} THEN 0 ELSE CHOOSE i \in at : \A j \in at : j <= i

\* PurePath.suffix: the last dot and what follows it, unless the dot is the
\* first or the last character of the name
suffix(name) ==
    LET i == RFindDot(name)
    IN  IF 1 < i /\ i < Len(name) THEN SubSeq(name, i, Len(name)) ELSE <<>>

\* ---------------------------------------------------------------- state
VARIABLES
    \* the file system: every directory above the depth bound lists the
    \* entries dlist (directories and links) and flist (files); a file whose
    \* name is in unreadable cannot be opened
    dlist, flist, unreadable,
    \* os.getcwd(), and whether an earlier run left its output file there
    cwd, old_output,
    \* main: the parsed command line, the locals, the index of the folder
    \* argument the loop is at, the collected results, the output file
    args, main, idx, output_content, written,
    \* __file__: where the running script is
    script_file,
    \* the logger's output
    log,
    \* collect_files: its parameters
    folder_path, exclude_files, exclude_dirs, all_files,
    include_extensions, exclude_extensions,
    \* collect_files: os.walk's stack of directories to list, the triple it
    \* yielded last (root, dirs, files: files is what the inner loop still
    \* has to visit), the directories it has listed, the parts collected and
    \* the value returned
    stack, root, dirs, files, listed, output_parts, result,
    \* where the program is
    pc

fsvars    == <<dlist, flist, unreadable, cwd, old_output>>
mainvars  == <<args, main, idx, output_content, written, script_file>>
paramvars == <<folder_path, exclude_files, exclude_dirs, all_files,
               include_extensions, exclude_extensions>>
walkvars  == <<stack, root, dirs, files, listed, output_parts, result>>
vars      == <<fsvars, mainvars, log, paramvars, walkvars, pc>>

\* ---------------------------------------------------------- the file system
\* os.path.islink: the only link of the universe is named l
islink(p) == p # <<>> /\ Last(p) = L

\* Path.is_dir on a resolved path: /w and the directories dlist names below
\* it, down to the depth bound
is_dir(p) ==
    /\ Len(p) >= 1
    /\ Len(p) <= MaxDepth + 1
    /\ p[1] = W
    /\ \A i \in 2..Len(p) : p[i] \in Range(dlist) /\ p[i] # L

RECURSIVE ResolveFrom(_, _)
ResolveFrom(done, rest) ==
    IF rest = <<>> THEN done
    ELSE IF Head(rest) = L /\ L \in Range(dlist) /\ is_dir(done) /\ Len(done) <= MaxDepth
         THEN ResolveFrom(<<W>>, Tail(rest))
         ELSE ResolveFrom(Append(done, Head(rest)), Tail(rest))

\* Path.resolve: a link l inside a directory stands for /w
resolve(p) == ResolveFrom(<<>>, p)

\* os.scandir as os.walk uses it: the entries that are directories (a link to
\* a directory is one) and the others, in listing order; the output file of
\* an earlier run is an entry of the working directory
scandir(p) ==
    [ dirs  |-> IF Len(p) <= MaxDepth THEN dlist ELSE <<>>,
      files |-> flist \o (IF old_output /\ p = cwd THEN <<OUT>> ELSE <<>>) ]

\* what a file holds: its first character and its depth, so that files of
\* the same name in different directories differ
FileContent(p) == <<p[Len(p)][1]>> \o [ i \in 1..(Len(p) - 1) |-> "+" ]

\* open(...).read(): the content, or the error's description
ReadFile(file_path) ==
    IF Last(file_path) \in unreadable
    THEN [ ok |-> FALSE, e |-> <<"[Errno 13] Permission denied">> ]
    ELSE [ ok |-> TRUE, content |-> FileContent(file_path) ]

\* ------------------------------------------------------------ collect_files
\* the pruning rebinds dirs instead of changing the list os.walk holds
KeptDirs_Rebound(ds) == ds

\* line 50: dirs[:] = [d for d in dirs if d not in exclude_dirs]
KeptDirs(ds) == SelectSeq(ds, LAMBDA d : d \notin exclude_dirs)

\* the extension is compared as it is spelled
file_ext_AsSpelled(file) == suffix(file)

\* line 54: file_path.suffix.lower()
file_ext(file) == lower(suffix(file))

\* the exclusion is applied in the default mode only
ExtExcluded_UnlessAllFiles(ext) == ~all_files /\ ext \in exclude_extensions

\* line 57
ExtExcluded(ext) == ext \in exclude_extensions

\* line 61
ExtNotIncluded(ext) == ~all_files /\ ext \notin include_extensions

\* the file is compared by its name, not by its path
FileExcluded_ByName(file_path) ==
    \E x \in exclude_files : Last(x) = Last(file_path)

\* line 65
FileExcluded(file_path) == file_path \in exclude_files

\* the header names the file without its directories
rel_path_NameOnly(file_path) == <<Last(file_path)>>

\* line 69: file_path.relative_to(folder_path)
rel_path(file_path) == SubSeq(file_path, Len(folder_path) + 1, Len(file_path))

\* line 75
Placeholder(e) == <<"<<Error reading file: ">> \o e \o <<">>">>

\* the read is not guarded: its error leaves collect_files
ReadOrPlaceholder_Unguarded(file_path) ==
    LET r == ReadFile(file_path)
    IN  IF r.ok
        THEN [ raised |-> FALSE, failed |-> FALSE, content |-> r.content ]
        ELSE [ raised |-> TRUE, failed |-> TRUE, content |-> <<>> ]

\* lines 70-75: the content the record gets, and whether an exception leaves
\* the try statement
ReadOrPlaceholder(file_path) ==
    LET r == ReadFile(file_path)
    IN  IF r.ok
        THEN [ raised |-> FALSE, failed |-> FALSE, content |-> r.content ]
        ELSE [ raised |-> FALSE, failed |-> TRUE, content |-> Placeholder(r.e) ]

\* line 77: the record's header, up to and including the line break
Header(file_path) ==
    <<"[">> \o Last(folder_path) \o <<"/">> \o JoinSlash(rel_path(file_path))
            \o <<"]", "\n">>

\* line 77
Record(file_path, content) == Header(file_path) \o content \o <<"\n", "\n">>

\* os.walk as with followlinks=True: links go on the stack too
Pushed_FollowLinks ==
    stack \o [ i \in 1..Len(dirs) |-> Append(root, Reverse(dirs)[i]) ]

\* os.walk resuming after a yield: the directories left in dirs go on the
\* stack, last first, unless they are links
Pushed ==
    stack \o SelectSeq([ i \in 1..Len(dirs) |-> Append(root, Reverse(dirs)[i]) ],
                       LAMBDA q : ~islink(q))

\* line 48 and line 50: os.walk lists the next directory and yields it, and
\* the loop body prunes dirs in place
WalkNext ==
    /\ pc = "walk"
    /\ files = <<>>
    /\ Pushed # <<>>
    /\ LET top == Last(Pushed)
           sc  == scandir(top)
       IN  /\ stack' = SubSeq(Pushed, 1, Len(Pushed) - 1)
           /\ root' = top
           /\ dirs' = KeptDirs(sc.dirs)
           /\ files' = sc.files
           /\ listed' = Append(listed, top)
    /\ UNCHANGED <<fsvars, mainvars, log, paramvars, output_parts, result, pc>>

\* lines 52-77: one round of the loop over files
VisitFile ==
    /\ pc = "walk"
    /\ files # <<>>
    /\ LET file      == Head(files)
           file_path == Append(root, file)
           ext       == file_ext(file)
       IN  /\ files' = Tail(files)
           /\ IF ExtExcluded(ext) \/ ExtNotIncluded(ext) \/ FileExcluded(file_path)
              THEN UNCHANGED <<output_parts, log, pc>>
              ELSE LET r == ReadOrPlaceholder(file_path)
                   IN  /\ log' = IF r.failed
                                 THEN Append(log, <<"WARNING", "Failed to read file", file_path>>)
                                 ELSE log
                       /\ IF r.raised
                          THEN pc' = "raised" /\ UNCHANGED output_parts
                          ELSE /\ output_parts' = Append(output_parts, Record(file_path, r.content))
                               /\ UNCHANGED pc
    /\ UNCHANGED <<fsvars, mainvars, paramvars, stack, root, dirs, listed, result>>

\* line 79: the walk is over
CollectReturn ==
    /\ pc = "walk"
    /\ files = <<>>
    /\ Pushed = <<>>
    /\ result' = Join(output_parts)
    /\ pc' = "returned"
    /\ UNCHANGED <<fsvars, mainvars, log, paramvars, stack, root, dirs, files,
                   listed, output_parts>>

\* ---------------------------------------- collect_files called on its own
NoArgs == [ folders |-> <<>>, exclude |-> <<>>, exclude_langs |-> <<>>,
            all_files |-> FALSE ]
NoMain == [ current_script |-> <<>>, exclude_files |-> {}, exclude_dirs |-> {},
            exclude_extensions |-> {}, output_file |-> <<>> ]
NotWritten == [ status |-> "none", content |-> <<>> ]

InitFS ==
    /\ dlist \in DirLists
    /\ flist \in FileLists
    /\ unreadable \in Unreadables

InitWalk ==
    /\ stack = <<folder_path>>
    /\ root = <<>>
    /\ dirs = <<>>
    /\ files = <<>>
    /\ listed = <<>>
    /\ output_parts = <<>>
    /\ result = <<>>

Init ==
    /\ InitFS
    /\ cwd = <<OPT>>
    /\ old_output = FALSE
    /\ args = NoArgs
    /\ main = NoMain
    /\ idx = 0
    /\ output_content = <<>>
    /\ written = NotWritten
    /\ script_file = <<>>
    /\ log = <<>>
    /\ folder_path \in { <<W>> } \cup { <<W, d>> : d \in Range(dlist) \ {L} }
    /\ exclude_files \in { {}, { <<W, FC>> }, { <<W, S, FCU>> } }
    /\ exclude_dirs \in SUBSET { S, VENV }
    /\ all_files \in BOOLEAN
    /\ include_extensions \in { DEFAULT_EXTENSIONS, { EXT_O } }
    /\ exclude_extensions \in { {}, { EXT_C }, { EXT_O }, { EXT_CU } }
    /\ InitWalk
    /\ pc = "walk"

Next == WalkNext \/ VisitFile \/ CollectReturn

Spec == Init /\ [][Next]_vars

\* ------------------- collect_files on trees whose links form cycles, run on
\* every directory above the depth bound holds the link l to /w, so that
\* /w/l, /w/s/l, ... all lead back to the top
LinkDirLists == { <<L>>, <<L, S>>, <<S, L>>, <<L, S, VENV>> }

InitTerm ==
    /\ dlist \in LinkDirLists
    /\ flist \in FileLists
    /\ unreadable = {}
    /\ cwd = <<OPT>>
    /\ old_output = FALSE
    /\ args = NoArgs
    /\ main = NoMain
    /\ idx = 0
    /\ output_content = <<>>
    /\ written = NotWritten
    /\ script_file = <<>>
    /\ log = <<>>
    /\ folder_path \in { <<W>> } \cup { <<W, d>> : d \in Range(dlist) \ {L} }
    /\ exclude_files = {}
    /\ exclude_dirs \in { {}, {S}, {L} }
    /\ all_files \in BOOLEAN
    /\ include_extensions = DEFAULT_EXTENSIONS
    /\ exclude_extensions = {}
    /\ InitWalk
    /\ pc = "walk"

\* the program is sequential and every step of it returns: a step that can
\* be taken is taken
SpecTerm == InitTerm /\ [][Next]_vars /\ WF_vars(Next)

\* --------------------------------------------------------------------- main
\* str.strip(): the blanks at both ends go
RECURSIVE lstrip(_)
lstrip(s) == IF s # <<>> /\ Head(s) = " " THEN lstrip(Tail(s)) ELSE s

strip(s) == Reverse(lstrip(Reverse(lstrip(s))))

RECURSIVE SplitFrom(_, _)
\* the pieces of rest between commas, cur being the piece begun
SplitFrom(cur, rest) ==
    IF rest = <<>> THEN <<cur>>
    ELSE IF Head(rest) = "," THEN <<cur>> \o SplitFrom(<<>>, Tail(rest))
    ELSE SplitFrom(Append(cur, Head(rest)), Tail(rest))

\* str.split(",")
split(s) == SplitFrom(<<>>, s)

\* line 128
raw_extensions(s) == [ i \in 1..Len(split(s)) |-> strip(split(s)[i]) ]

\* lines 129-131: the entries that are empty stay, and become "."
NormalizedExtensions_KeepsEmpty(raw) ==
    { IF ext # <<>> /\ Head(ext) = "." THEN ext ELSE <<".">> \o ext : ext \in Range(raw) }

\* lines 129-131
NormalizedExtensions(raw) ==
    { IF Head(ext) = "." THEN ext ELSE <<".">> \o ext :
        ext \in { e \in Range(raw) : strip(e) # <<>> } }

\* lines 125-131
ParseExcludeLangs(s) ==
    IF s # <<>> THEN NormalizedExtensions(raw_extensions(s)) ELSE {}

\* --exclude replaces the default set instead of adding to it
ExcludeDirsOf_UserReplaces(exclude) ==
    IF exclude = <<>> THEN DEFAULT_EXCLUDE_DIRS ELSE Range(exclude)

\* line 122
ExcludeDirsOf(exclude) == DEFAULT_EXCLUDE_DIRS \cup Range(exclude)

\* lines 115-141
ParseArgs ==
    /\ pc = "main"
    /\ main' = [ current_script     |-> resolve(script_file),
                 exclude_files      |-> { resolve(script_file) },
                 exclude_dirs       |-> ExcludeDirsOf(args.exclude),
                 exclude_extensions |-> ParseExcludeLangs(args.exclude_langs),
                 output_file        |-> Append(cwd, OUT) ]
    /\ output_content' = <<>>
    /\ log' = Append(log, <<"INFO", "Starting code collection", Len(args.folders)>>)
    /\ idx' = 1
    /\ pc' = "loop"
    /\ UNCHANGED <<fsvars, args, written, script_file, paramvars, walkvars>>

\* lines 144-148, with a root that is not a directory ending the run
SkipRoot_Fatal ==
    /\ pc = "loop"
    /\ idx <= Len(args.folders)
    /\ ~is_dir(resolve(args.folders[idx]))
    /\ log' = Append(log, <<"ERROR", "is not a directory", resolve(args.folders[idx])>>)
    /\ pc' = "raised"
    /\ UNCHANGED <<fsvars, mainvars, paramvars, walkvars>>

\* lines 144-148: a root that is not a directory
SkipRoot ==
    /\ pc = "loop"
    /\ idx <= Len(args.folders)
    /\ ~is_dir(resolve(args.folders[idx]))
    /\ log' = Append(log, <<"ERROR", "is not a directory, skipping", resolve(args.folders[idx])>>)
    /\ idx' = idx + 1
    /\ UNCHANGED <<fsvars, args, main, output_content, written, script_file,
                   paramvars, walkvars, pc>>

\* lines 144-159: a root that is a directory; collect_files is entered
CallCollect ==
    /\ pc = "loop"
    /\ idx <= Len(args.folders)
    /\ is_dir(resolve(args.folders[idx]))
    /\ log' = Append(log, <<"INFO", "Processing directory", resolve(args.folders[idx])>>)
    /\ folder_path' = resolve(args.folders[idx])
    /\ exclude_files' = main.exclude_files
    /\ exclude_dirs' = main.exclude_dirs
    /\ all_files' = args.all_files
    /\ include_extensions' = DEFAULT_EXTENSIONS
    /\ exclude_extensions' = main.exclude_extensions
    /\ stack' = << resolve(args.folders[idx]) >>
    /\ root' = <<>>
    /\ dirs' = <<>>
    /\ files' = <<>>
    /\ listed' = <<>>
    /\ output_parts' = <<>>
    /\ result' = <<>>
    /\ pc' = "walk"
    /\ UNCHANGED <<fsvars, mainvars>>

\* line 151: output_content.append(...), and on to the next folder
AppendResult ==
    /\ pc = "returned"
    /\ output_content' = Append(output_content, result)
    /\ idx' = idx + 1
    /\ pc' = "loop"
    /\ UNCHANGED <<fsvars, args, main, written, script_file, log, paramvars, walkvars>>

\* lines 163-166: the output file is written
WriteOutput ==
    /\ pc = "loop"
    /\ idx > Len(args.folders)
    /\ written' = [ status |-> "ok", content |-> Join(output_content) ]
    /\ log' = Append(log, <<"INFO", "Successfully created output file">>)
    /\ pc' = "done"
    /\ UNCHANGED <<fsvars, args, main, idx, output_content, script_file,
                   paramvars, walkvars>>

\* lines 163-169, with the error logged and not raised again
WriteFails_Swallowed ==
    /\ pc = "loop"
    /\ idx > Len(args.folders)
    /\ written' = [ status |-> "failed", content |-> <<>> ]
    /\ log' = Append(log, <<"ERROR", "Failed to write output file">>)
    /\ pc' = "done"
    /\ UNCHANGED <<fsvars, args, main, idx, output_content, script_file,
                   paramvars, walkvars>>

\* lines 163-169: opening or writing the output file fails
WriteFails ==
    /\ pc = "loop"
    /\ idx > Len(args.folders)
    /\ written' = [ status |-> "failed", content |-> <<>> ]
    /\ log' = Append(log, <<"ERROR", "Failed to write output file">>)
    /\ pc' = "raised"
    /\ UNCHANGED <<fsvars, args, main, idx, output_content, script_file,
                   paramvars, walkvars>>

\* the folder arguments of the universe: two directories, a link to /w (or a
\* name that is not there, in a file system without the link), nothing
RootArgs == { <<W>>, <<W, S>>, <<W, L>>, <<X>> }

RECURSIVE SeqsUpTo(_, _)
\* the sequences over set S of length at most n
SeqsUpTo(A, n) ==
    IF n = 0 THEN { <<>> }
    ELSE SeqsUpTo(A, n - 1) \cup
         { Append(s, a) : s \in { q \in SeqsUpTo(A, n - 1) : Len(q) = n - 1 }, a \in A }

LangChoices == { <<>>, <<"c">>, <<".", "o", ",", " ", "C">> }

InitMainRest ==
    /\ main = NoMain
    /\ idx = 0
    /\ output_content = <<>>
    /\ written = NotWritten
    /\ log = <<>>
    /\ folder_path = <<>>
    /\ exclude_files = {}
    /\ exclude_dirs = {}
    /\ all_files = FALSE
    /\ include_extensions = {}
    /\ exclude_extensions = {}
    /\ stack = <<>>
    /\ root = <<>>
    /\ dirs = <<>>
    /\ files = <<>>
    /\ listed = <<>>
    /\ output_parts = <<>>
    /\ result = <<>>
    /\ pc = "main"

InitMain ==
    /\ dlist \in { <<VENV, S>>, <<L, S>> }
    /\ flist \in { <<FCU, FC, FK>>, <<FC, FO>> }
    /\ unreadable \in { {}, {FC} }
    /\ cwd \in { <<OPT>>, <<W, S>> }
    /\ old_output \in BOOLEAN
    /\ script_file \in { <<OPT, FC>>, <<W, S, FC>> } \cup
                       (IF L \in Range(dlist) THEN { <<W, L, S, FC>> } ELSE {})
    /\ args \in [ folders       : SeqsUpTo(RootArgs, MaxRoots) \ { <<>> },
                  exclude       : { <<>>, <<S>> },
                  exclude_langs : LangChoices,
                  all_files     : BOOLEAN ]
    /\ InitMainRest

NextMain ==
    \/ ParseArgs
    \/ SkipRoot
    \/ CallCollect
    \/ WalkNext
    \/ VisitFile
    \/ CollectReturn
    \/ AppendResult
    \/ WriteOutput
    \/ WriteFails

SpecMain == InitMain /\ [][NextMain]_vars

\* ------------------ main on every --exclude-langs, in one small file system
LangAlphabet == { "c", "C", ".", ",", " " }

InitLangs ==
    /\ dlist = <<S>>
    /\ flist = <<FCU, FC, FO>>
    /\ unreadable = {}
    /\ cwd = <<OPT>>
    /\ old_output = FALSE
    /\ script_file = <<OPT, FC>>
    /\ args \in [ folders       : { << <<X>>, <<W, S>> >> },
                  exclude       : { <<>> },
                  exclude_langs : SeqsUpTo(LangAlphabet, MaxLangLen),
                  all_files     : { TRUE } ]
    /\ InitMainRest

SpecLangs == InitLangs /\ [][NextMain]_vars

\* ------------------------------------------------ what the claims speak of
RECURSIVE DirsBelow(_)
\* the directories of the tree at p: p and, through entries that are not
\* links, the directories below it
DirsBelow(p) ==
    {p} \cup UNION { DirsBelow(Append(p, d)) : d \in Range(scandir(p).dirs) \ {L} }

TreeDirs == DirsBelow(folder_path)

TreeFiles == UNION { { Append(d, f) : f \in Range(scandir(d).files) } : d \in TreeDirs }

\* s holds h as a contiguous part
Occurs(h, s) == \E i \in 1..(Len(s) + 1 - Len(h)) : SubSeq(s, i, i + Len(h) - 1) = h

\* "[<root-basename>/<relative-path>]\n" for file f under root fp
HeaderFor(fp, f) ==
    <<"[">> \o fp[Len(fp)] \o <<"/">>
            \o JoinSlash(SubSeq(f, Len(fp) + 1, Len(f))) \o <<"]", "\n">>

ClaimHeader(f) == HeaderFor(folder_path, f)

\* the output holds a record for f
HasRecord(f) ==
    \/ \E i \in 1..Len(output_parts) : IsPrefix(ClaimHeader(f), output_parts[i])
    \/ Occurs(ClaimHeader(f), result)

\* the lower-cased extension of f's name
ClaimExt(f) == lower(suffix(f[Len(f)]))

\* f lies inside a directory of the tree at fp, other than fp itself, whose
\* basename is in xd
UnderPrunedFor(fp, xd, f) ==
    \E k \in (Len(fp) + 1)..(Len(f) - 1) : f[k] \in xd

UnderPruned(f) == UnderPrunedFor(folder_path, exclude_dirs, f)

\* f is eligible in a call with root fp, exclude_files xf, exclude_dirs xd,
\* all_files af, include_extensions ie and exclude_extensions xe
EligibleFor(fp, xf, xd, af, ie, xe, f) ==
    /\ ~UnderPrunedFor(fp, xd, f)
    /\ ClaimExt(f) \notin xe
    /\ af \/ ClaimExt(f) \in ie
    /\ f \notin xf

ClaimEligible(f) ==
    EligibleFor(folder_path, exclude_files, exclude_dirs, all_files,
                include_extensions, exclude_extensions, f)

\* C1: a file whose lower-cased extension is in exclude_extensions has no
\* record in the output, whatever all_files is and whether or not the
\* extension is in include_extensions.
C1_ExcludedExtensionNeverCollected ==
    \A f \in TreeFiles : ClaimExt(f) \in exclude_extensions => ~HasRecord(f)

\* C1 witness: a finished walk in all-files mode that collected something
\* and met a file whose extension is both included and excluded.
C1_Witness ==
    /\ pc = "returned"
    /\ all_files
    /\ output_parts # <<>>
    /\ \E f \in TreeFiles :
          /\ ~UnderPruned(f)
          /\ f \notin exclude_files
          /\ ClaimExt(f) \in exclude_extensions \cap include_extensions

\* C2 as stated: no directory of the tree whose basename is in exclude_dirs,
\* the root included, is listed or descended into, and no file beneath it
\* has a record.
C2_Original ==
    \A d \in TreeDirs :
        d[Len(d)] \in exclude_dirs =>
            /\ d \notin Range(listed)
            /\ \A f \in TreeFiles : IsPrefix(d, f) => ~HasRecord(f)

\* C2: no directory below the root of the walk whose basename is in
\* exclude_dirs is put on the stack or listed, at any depth, and no file
\* beneath it has a record.
C2_PrunedSubdirectoryNeverVisited ==
    \A d \in TreeDirs \ {folder_path} :
        d[Len(d)] \in exclude_dirs =>
            /\ d \notin Range(listed)
            /\ d \notin Range(stack)
            /\ \A f \in TreeFiles : IsPrefix(d, f) => ~HasRecord(f)

\* C2 witness: a finished walk that collected something and left out a
\* pruned directory two levels below the root, which holds a file that the
\* other filters accept.
C2_Witness ==
    /\ pc = "returned"
    /\ output_parts # <<>>
    /\ \E d \in TreeDirs :
          /\ Len(d) = Len(folder_path) + 2
          /\ d[Len(d)] \in exclude_dirs
          /\ d[Len(d) - 1] \notin exclude_dirs
          /\ \E f \in TreeFiles :
                /\ IsPrefix(d, f)
                /\ ClaimExt(f) \notin exclude_extensions
                /\ all_files \/ ClaimExt(f) \in include_extensions
                /\ f \notin exclude_files

\* C3: a file whose path is in exclude_files has no record, and when the
\* walk has returned every other eligible file has one.
C3_ExcludedFileNeverCollected ==
    /\ \A f \in TreeFiles : f \in exclude_files => ~HasRecord(f)
    /\ pc = "returned" =>
          \A f \in TreeFiles : ClaimEligible(f) => HasRecord(f)

\* C3 witness: a finished walk that skipped a file of exclude_files whose
\* extension is accepted and collected a file of the same name in another
\* directory.
C3_Witness ==
    /\ pc = "returned"
    /\ \E f \in TreeFiles \cap exclude_files :
          /\ ~UnderPruned(f)
          /\ ClaimExt(f) \notin exclude_extensions
          /\ all_files \/ ClaimExt(f) \in include_extensions
          /\ \E g \in TreeFiles :
                g # f /\ g[Len(g)] = f[Len(f)] /\ HasRecord(g)

\* two names that differ only in the letter case of their extension
SameButExtCase(n1, n2) ==
    /\ n1 # n2
    /\ Len(n1) = Len(n2)
    /\ suffix(n1) # <<>>
    /\ RFindDot(n1) = RFindDot(n2)
    /\ SubSeq(n1, 1, RFindDot(n1)) = SubSeq(n2, 1, RFindDot(n2))
    /\ lower(n1) = lower(n2)

\* two files of one directory whose names differ only in the case of the
\* extension
CasePairs ==
    { pr \in TreeFiles \X TreeFiles :
        /\ SubSeq(pr[1], 1, Len(pr[1]) - 1) = SubSeq(pr[2], 1, Len(pr[2]) - 1)
        /\ SameButExtCase(pr[1][Len(pr[1])], pr[2][Len(pr[2])]) }

\* C4 as stated: of two files that differ only in the letter case of the
\* extension, both are collected or both are skipped, whatever the filter
\* parameters.
C4_Original ==
    pc = "returned" =>
        \A pr \in CasePairs : HasRecord(pr[1]) <=> HasRecord(pr[2])

\* C4: of two files that differ only in the letter case of the extension,
\* both are collected or both are skipped, unless exclude_files holds the
\* path of exactly one of them.
C4_ExtensionCaseInsensitive ==
    pc = "returned" =>
        \A pr \in CasePairs :
            (pr[1] \in exclude_files <=> pr[2] \in exclude_files)
                => (HasRecord(pr[1]) <=> HasRecord(pr[2]))

\* C4 witness: a finished walk in the default mode that collected both
\* files of such a pair.
C4_Witness ==
    /\ pc = "returned"
    /\ ~all_files
    /\ \E pr \in CasePairs : HasRecord(pr[1]) /\ HasRecord(pr[2])

RECURSIVE WalkAll(_), WalkDirs(_, _)
\* every file at or below directory p, top down: the files of p in listing
\* order, then the same for each directory entry of p in listing order, a
\* link left aside
WalkAll(p) ==
    [ i \in 1..Len(scandir(p).files) |-> Append(p, scandir(p).files[i]) ]
        \o WalkDirs(p, scandir(p).dirs)
WalkDirs(p, ds) ==
    IF ds = <<>> THEN <<>>
    ELSE (IF Head(ds) = L THEN <<>> ELSE WalkAll(Append(p, Head(ds))))
             \o WalkDirs(p, Tail(ds))

\* the eligible files, in traversal order
EligibleSeq == SelectSeq(WalkAll(folder_path), ClaimEligible)

ErrorDescription == "[Errno 13] Permission denied"

\* what a record holds after its header: the file's content, or the
\* placeholder when the file cannot be read
ExpectedContent(f) ==
    IF f[Len(f)] \in unreadable
    THEN <<"<<Error reading file: ", ErrorDescription, ">>">>
    ELSE <<f[Len(f)][1]>> \o [ i \in 1..(Len(f) - 1) |-> "+" ]

RecordFor(fp, f) == HeaderFor(fp, f) \o ExpectedContent(f) \o <<"\n", "\n">>

ExpectedRecord(f) == RecordFor(folder_path, f)

\* the records of the eligible files of the tree at fp, in traversal order,
\* as one string
ExpectedResult(fp, xf, xd, af, ie, xe) ==
    LET seq == SelectSeq(WalkAll(fp), LAMBDA f : EligibleFor(fp, xf, xd, af, ie, xe, f))
    IN  Join([ i \in 1..Len(seq) |-> RecordFor(fp, seq[i]) ])

\* C5: the string returned is the concatenation, in traversal order, of one
\* record "[<root-basename>/<relative-path>]\n<content>\n\n" for each
\* eligible file and of nothing else.
C5_OutputIsRecordsOfEligibleFiles ==
    pc = "returned" =>
        /\ result = Join([ i \in 1..Len(EligibleSeq) |-> ExpectedRecord(EligibleSeq[i]) ])
        /\ Len(output_parts) = Len(EligibleSeq)

\* C5 witness: a finished walk that collected files of at least two
\* directories, skipped a file of the tree and left out a pruned directory.
C5_Witness ==
    /\ pc = "returned"
    /\ Len(EligibleSeq) >= 3
    /\ \E i, j \in 1..Len(EligibleSeq) : Len(EligibleSeq[i]) # Len(EligibleSeq[j])
    /\ \E f \in TreeFiles : ~UnderPruned(f) /\ ~ClaimEligible(f)
    /\ \E f \in TreeFiles : UnderPruned(f)

\* the place of x in the sequence s
Position(s, x) == CHOOSE i \in 1..Len(s) : s[i] = x

\* C6: a read that fails never ends collect_files with an error; the file
\* gets a record with its header and a placeholder that holds the error's
\* description, and every eligible file later in the traversal has its
\* record after it.
C6_ReadFailureGivesPlaceholder ==
    /\ pc # "raised"
    /\ pc = "returned" =>
          \A f \in Range(EligibleSeq) :
              f[Len(f)] \in unreadable =>
                  \E i \in 1..Len(output_parts) :
                      /\ IsPrefix(ClaimHeader(f), output_parts[i])
                      /\ ErrorDescription \in Range(output_parts[i])
                      /\ f[Len(f)][1] \notin
                            Range(SubSeq(output_parts[i], Len(ClaimHeader(f)) + 1,
                                         Len(output_parts[i])))
                      /\ \A g \in Range(EligibleSeq) :
                            Position(EligibleSeq, g) > Position(EligibleSeq, f) =>
                                \E j \in (i + 1)..Len(output_parts) :
                                    IsPrefix(ClaimHeader(g), output_parts[j])

\* C6 witness: a finished walk in which an eligible file could not be read
\* and an eligible file came after it.
C6_Witness ==
    /\ pc = "returned"
    /\ \E f, g \in Range(EligibleSeq) :
          /\ f[Len(f)] \in unreadable
          /\ g[Len(g)] \notin unreadable
          /\ Position(EligibleSeq, g) > Position(EligibleSeq, f)

\* the folder arguments, resolved
Roots == [ i \in 1..Len(args.folders) |-> resolve(args.folders[i]) ]

\* what collect_files is to return for the directories among the first n
\* folder arguments, in argument order
ExpectedResults(n) ==
    LET ds == SelectSeq(SubSeq(Roots, 1, n), is_dir)
    IN  [ i \in 1..Len(ds) |->
            ExpectedResult(ds[i], main.exclude_files, main.exclude_dirs,
                           args.all_files, DEFAULT_EXTENSIONS,
                           main.exclude_extensions) ]

\* the paths the log reports as not being directories, in order
LoggedNotDirs ==
    LET es == SelectSeq(log, LAMBDA e : e[1] = "ERROR" /\ Len(e) = 3)
    IN  [ i \in 1..Len(es) |-> es[i][3] ]

\* C7: the content written is the concatenation, in argument order, of the
\* collect_files results of the roots that are directories; a root that is
\* not a directory adds nothing and is logged, the roots before and after
\* it are processed, and the run ends in error only when the write fails.
C7_OutputConcatenatesDirectoryRoots ==
    /\ pc = "loop" => output_content = ExpectedResults(idx - 1)
    /\ pc = "loop" =>
          LoggedNotDirs = SelectSeq(SubSeq(Roots, 1, idx - 1), LAMBDA r : ~is_dir(r))
    /\ pc = "done" =>
          /\ written.status = "ok"
          /\ written.content = Join(ExpectedResults(Len(args.folders)))
    /\ pc = "raised" => written.status = "failed" /\ idx = Len(args.folders) + 1

\* C7 witness: a finished run whose first root is not a directory and whose
\* second root is one and yields records.
C7_Witness ==
    /\ pc = "done"
    /\ Len(args.folders) >= 2
    /\ ~is_dir(Roots[1])
    /\ is_dir(Roots[2])
    /\ written.content # <<>>

\* C8: when the write of the output file fails, the failure is the last
\* thing logged, the success message is not in the log, and main ends with
\* the error raised.
C8_WriteFailurePropagates ==
    written.status = "failed" =>
        /\ pc = "raised"
        /\ log[Len(log)] = <<"ERROR", "Failed to write output file">>
        /\ \A i \in 1..Len(log) : log[i][2] # "Successfully created output file"

\* C8 witness: a write that failed after a root was collected.
C8_Witness ==
    /\ written.status = "failed"
    /\ output_content # <<>>
    /\ Join(output_content) # <<>>

\* the pieces of s between commas, by position
Segments(s) ==
    { SubSeq(s, ij[1], ij[2]) :
        ij \in { q \in (1..(Len(s) + 1)) \X (0..Len(s)) :
                   /\ q[1] - 1 <= q[2]
                   /\ q[1] = 1 \/ s[q[1] - 1] = ","
                   /\ q[2] = Len(s) \/ s[q[2] + 1] = ","
                   /\ \A m \in q[1]..q[2] : s[m] # "," } }

\* g without the blanks at its ends
Trimmed(g) ==
    LET ns == { k \in 1..Len(g) : g[k] # " " }
    IN  IF ns = {} THEN <<>>
        ELSE SubSeq(g, CHOOSE a \in ns : \A k \in ns : a <= k,
                       CHOOSE b \in ns : \A k \in ns : k <= b)

ExpectedExtensions(s) ==
    { IF t[1] = "." THEN t ELSE <<".">> \o t :
        t \in { Trimmed(g) : g \in Segments(s) } \ { <<>> } }

\* C9: the exclude-extensions set main builds and passes to collect_files
\* holds, for each comma-separated entry of --exclude-langs that is not
\* blank, the trimmed entry with a dot put before it unless it starts with
\* one, and nothing else; it is empty without --exclude-langs.
C9_ExcludeLangsParsing ==
    /\ pc # "main" => main.exclude_extensions = ExpectedExtensions(args.exclude_langs)
    /\ pc = "walk" => exclude_extensions = ExpectedExtensions(args.exclude_langs)
    /\ (pc # "main" /\ args.exclude_langs = <<>>) => main.exclude_extensions = {}

\* C9 witness: collect_files called after a string was parsed that has a
\* blank entry, an entry with blanks around it and an entry without a dot.
C9_Witness ==
    /\ pc = "walk"
    /\ \E g \in Segments(args.exclude_langs) : Trimmed(g) = <<>>
    /\ \E g \in Segments(args.exclude_langs) :
          Trimmed(g) # g /\ Trimmed(g) # <<>> /\ Trimmed(g)[1] # "."
    /\ exclude_extensions # {}

\* C10: in every call main makes, exclude_dirs is the default set together
\* with the --exclude names and exclude_files holds the resolved path of the
\* running script.
C10_DefaultsAndScriptAlwaysExcluded ==
    pc = "walk" =>
        /\ exclude_dirs = DEFAULT_EXCLUDE_DIRS \cup Range(args.exclude)
        /\ DEFAULT_EXCLUDE_DIRS \subseteq exclude_dirs
        /\ resolve(script_file) \in exclude_files

\* C10 witness: a call under --exclude, --exclude-langs and --all-files,
\* with the script reached through a link.
C10_Witness ==
    /\ pc = "walk"
    /\ listed # <<>>
    /\ args.exclude # <<>>
    /\ args.exclude_langs # <<>>
    /\ args.all_files
    /\ resolve(script_file) # script_file

\* C11: the exclude-extensions set main hands to collect_files holds only
\* lower-cased extensions, so that an extension named in --exclude-langs in
\* any letter case keeps every file with that extension out of the output.
C11_ExcludeLangsAnyCase ==
    pc = "returned" =>
        /\ \A e \in exclude_extensions : lower(e) = e
        /\ \A x \in ExpectedExtensions(args.exclude_langs) :
              \A f \in TreeFiles : ClaimExt(f) = lower(x) => ~HasRecord(f)

\* the end of the header of a record for a file named collected_code.txt
OutputFileHeaderEnd == <<"/">> \o OUT \o <<"]", "\n">>

\* C12: the output file an earlier run left in the working directory has no
\* record in the output of this run, whatever the flags are and wherever
\* the working directory lies.
C12_OldOutputNeverCollected ==
    old_output =>
        /\ \A i \in 1..Len(output_parts) : ~Occurs(OutputFileHeaderEnd, output_parts[i])
        /\ pc = "done" => ~Occurs(OutputFileHeaderEnd, written.content)

\* no directory is listed twice, under any of its names
ListedOnce ==
    \A i, j \in 1..Len(listed) : i # j => resolve(listed[i]) # resolve(listed[j])

\* no path that is listed or waits on the stack is a link or leads through one
NoLinkDescended ==
    \A p \in Range(listed) \cup Range(stack) :
        \A k \in (Len(folder_path) + 1)..Len(p) : p[k] # L

\* C13: on a tree whose links to directories form cycles, the walk lists
\* each directory at most once, never descends into a link, and reaches its
\* end.
C13_WalkTerminates ==
    /\ [](ListedOnce /\ NoLinkDescended)
    /\ <>(pc = "returned")

\* C13 witness: a finished walk that listed at least three directories and
\* met, one level below its root, a link leading back to the top.
C13_Witness ==
    /\ pc = "returned"
    /\ L \in Range(dlist) \ exclude_dirs
    /\ Len(listed) >= 3
    /\ \E p \in Range(listed) : Len(p) = Len(folder_path) + 1 /\ L \in Range(scandir(p).dirs)

====
